---- MODULE Spec2Model ----
(***************************************************************************)
(* The complaints tracker of src/main.py and src/schemas.py as a state     *)
(* machine.  The state is the document store (the two collections          *)
(* teammember and complaint), the wall clock read by datetime.now, and the *)
(* requests in flight: FastAPI runs each "def" handler on a worker thread, *)
(* so a handler's store calls interleave with those of other requests.     *)
(* A handler is cut into steps only at its calls to the store; everything  *)
(* a handler does locally up to its next store call belongs to one step.   *)
(***************************************************************************)
EXTENDS Integers, Sequences, FiniteSets, Bags, TLC

VARIABLES
    db,          \* TRUE when the store connection exists (main.py:25, "db is None")
    teammember,  \* the teammember collection, in insertion order
    complaint,   \* the complaint collection, in insertion order
    clock,       \* what datetime.now(timezone.utc) returns now
    pc,          \* per worker: where its request stands
    req,         \* per worker: the request it is serving (path and body)
    loc,         \* per worker: the handler's local values
    resp,        \* per worker: the response of the finished request
    acked        \* bag of the notes whose add_note returned {"ok": True}

vars == <<db, teammember, complaint, clock, pc, req, loc, resp, acked>>

-----------------------------------------------------------------------------
(* Bounds of the model *)

MaxMembers == 3
MaxComplaints == 1
MaxNotes == 2
MaxClock == 2

Worker == {"w1", "w2"}

None == "<None>"

-----------------------------------------------------------------------------
(* Request bodies and path parameters the clients send *)

TeamCreateInputs ==
    { [username |-> "alice", password |-> "pw1", full_name |-> None],
      [username |-> "alice", password |-> "pw2", full_name |-> "Alice A"],
      [username |-> "bob",   password |-> "pw1", full_name |-> None] }

LoginRequestInputs == [username : {"alice", "bob"}, password : {"pw1", "pw2"}]

ComplaintCreateInputs ==
    { [title |-> "No signal", description |-> "...", customer_name |-> None,
       customer_contact |-> None, assigned_to |-> None],
      [title |-> "Slow link", description |-> "drops at night", customer_name |-> "Carol",
       customer_contact |-> "555-0100", assigned_to |-> "alice"] }

StatusUpdateInputs == [status : {"progress", "bogus"}]

NoteCreateInputs == [text : {"called back"}]

NoteUsernameInputs == {"alice"}

\* str(ObjectId): the text of a 24-digit hexadecimal identifier, kept as the
\* number it denotes; hex = FALSE is a text that is not such an identifier.
OidString(n) == [hex |-> TRUE, n |-> n]

MalformedId == [hex |-> FALSE, n |-> 0]

\* The oldest complaint, an identifier no complaint has yet, and a malformed one
ComplaintIdInputs == {OidString(1), OidString(MaxComplaints + 1), MalformedId}

-----------------------------------------------------------------------------
(* schemas.py *)

TeamMember(username, password, full_name) ==
    [username |-> username, password |-> password, full_name |-> full_name,
     role |-> "team", is_active |-> TRUE]

Complaint_progress(title, description, customer_name, customer_contact, assigned_to) ==
    [title |-> title, description |-> description, customer_name |-> customer_name,
     customer_contact |-> customer_contact, assigned_to |-> assigned_to,
     status |-> "progress", notes |-> <<>>]

Complaint(title, description, customer_name, customer_contact, assigned_to) ==
    [title |-> title, description |-> description, customer_name |-> customer_name,
     customer_contact |-> customer_contact, assigned_to |-> assigned_to,
     status |-> "pending", notes |-> <<>>]

\* The Literal of Complaint.status
StatusLiteral == {"pending", "progress", "complete", "critical", "hold", "cancelled"}

-----------------------------------------------------------------------------
(* The store: bson and pymongo as main.py calls them *)

\* bson.ObjectId(text): the identifier, or InvalidId raised
ObjectId(text) == [valid |-> text.hex, oid |-> text.n]

\* A document matches a query when it has every field of the query with that value
Matches(doc, query) ==
    \A k \in DOMAIN query : k \in DOMAIN doc /\ doc[k] = query[k]

\* Collection.find_one: the position of the first matching document, 0 for None
find_one(coll, query) ==
    LET hits == {i \in DOMAIN coll : Matches(coll[i], query)}
    IN  IF hits = {} THEN 0 ELSE CHOOSE i \in hits : \A j \in hits : i <= j

\* $push then $set on one document
ApplyUpdate_prepend(doc, update) ==
    LET pushed == IF "push" \in DOMAIN update
                  THEN [k \in DOMAIN update.push |->
                          IF k \in DOMAIN doc THEN <<update.push[k]>> \o doc[k]
                          ELSE <<update.push[k]>>] @@ doc
                  ELSE doc
    IN  IF "set" \in DOMAIN update THEN update.set @@ pushed ELSE pushed

ApplyUpdate(doc, update) ==
    LET pushed == IF "push" \in DOMAIN update
                  THEN [k \in DOMAIN update.push |->
                          IF k \in DOMAIN doc THEN Append(doc[k], update.push[k])
                          ELSE <<update.push[k]>>] @@ doc
                  ELSE doc
    IN  IF "set" \in DOMAIN update THEN update.set @@ pushed ELSE pushed

\* Collection.update_one: one atomic write of the first matching document
update_one(coll, query, update) ==
    LET i == find_one(coll, query)
    IN  IF i = 0 THEN [coll |-> coll, matched_count |-> 0]
        ELSE [coll |-> [coll EXCEPT ![i] = ApplyUpdate(coll[i], update)],
              matched_count |-> 1]

\* database.create_document: insert the serialized record; the store generates
\* the identifier, here the document's position in its collection
create_document(coll, record) ==
    LET id == Len(coll) + 1
    IN  [coll |-> Append(coll, [oid |-> id] @@ record), id |-> OidString(id)]

-----------------------------------------------------------------------------
(* Responses *)

HTTPException(status_code, detail) == [code |-> status_code, detail |-> detail]

StoreUnavailable == HTTPException(500, "Database not configured")

InternalServerError == HTTPException(500, "Internal Server Error")

NoRequest == [op |-> "none"]

NoLocals == [none |-> TRUE]

NoResponse == [code |-> 0]

Finish(p, response) ==
    /\ pc' = [pc EXCEPT ![p] = "done"]
    /\ resp' = [resp EXCEPT ![p] = response]

-----------------------------------------------------------------------------
(* main.py: the values the handlers compute *)

allowed == {"pending", "progress", "complete", "critical", "hold", "cancelled"}

status_ok_any(status) == TRUE

status_ok(status) == status \in allowed

team_login_query_no_gate(payload) ==
    [username |-> payload.username, password |-> payload.password]

team_login_query(payload) ==
    [username |-> payload.username, password |-> payload.password, is_active |-> TRUE]

username_taken_same_password(data) ==
    find_one(teammember, [username |-> data.username, password |-> data.password]) # 0

username_taken(data) ==
    find_one(teammember, [username |-> data.username]) # 0

update_status_update_no_stamp(status, now) ==
    [set |-> [status |-> status]]

update_status_update(status, now) ==
    [set |-> [status |-> status, updated_at |-> now]]

add_note_update_overwrite(note, now) ==
    [set |-> [notes |-> <<note>>, updated_at |-> now]]

add_note_update(note, now) ==
    [push |-> [notes |-> note], set |-> [updated_at |-> now]]

-----------------------------------------------------------------------------
(* Bookkeeping of the bounds *)

Pending(states) == Cardinality({q \in Worker : pc[q] \in states})

LongestNotes ==
    IF complaint = <<>> THEN 0
    ELSE LET lens == {Len(complaint[i].notes) : i \in DOMAIN complaint}
         IN  CHOOSE n \in lens : \A m \in lens : m <= n

-----------------------------------------------------------------------------
(* Initial state: a configured store, empty or holding a member that was     *)
(* deactivated in the store itself, or no store at all.                      *)

Init ==
    /\ db \in BOOLEAN
    /\ teammember \in
         IF db THEN { <<>>,
                      <<[oid |-> 1] @@ [TeamMember("bob", "pw1", None)
                                           EXCEPT !.is_active = FALSE]>> }
         ELSE { <<>> }
    /\ complaint = <<>>
    /\ clock = 1
    /\ pc = [p \in Worker |-> "idle"]
    /\ req = [p \in Worker |-> NoRequest]
    /\ loc = [p \in Worker |-> NoLocals]
    /\ resp = [p \in Worker |-> NoResponse]
    /\ acked = EmptyBag

-----------------------------------------------------------------------------
(* The clock advances *)

Tick ==
    /\ clock < MaxClock
    /\ clock' = clock + 1
    /\ UNCHANGED <<db, teammember, complaint, pc, req, loc, resp, acked>>

(* POST /auth/team *)
team_login(p, payload) ==
    /\ pc[p] = "idle"
    /\ req' = [req EXCEPT ![p] = [op |-> "team_login", payload |-> payload]]
    /\ IF ~db THEN Finish(p, StoreUnavailable)
       ELSE LET user == find_one(teammember, team_login_query(payload))
            IN  IF user # 0
                THEN Finish(p, [code |-> 200, role |-> "team",
                                username |-> teammember[user].username])
                ELSE Finish(p, HTTPException(401, "Invalid credentials"))
    /\ UNCHANGED <<db, teammember, complaint, clock, loc, acked>>

(* POST /admin/team, up to and including find_one *)
create_team_member_find(p, data) ==
    /\ pc[p] = "idle"
    /\ Len(teammember) + Pending({"ctm_insert"}) < MaxMembers
    /\ req' = [req EXCEPT ![p] = [op |-> "create_team_member", data |-> data]]
    /\ IF ~db THEN Finish(p, StoreUnavailable)
       ELSE IF username_taken(data)
       THEN Finish(p, HTTPException(400, "Username already exists"))
       ELSE /\ pc' = [pc EXCEPT ![p] = "ctm_insert"]
            /\ UNCHANGED resp
    /\ UNCHANGED <<db, teammember, complaint, clock, loc, acked>>

(* POST /admin/team, create_document and the return *)
create_team_member_insert(p) ==
    /\ pc[p] = "ctm_insert"
    /\ LET data == req[p].data
           member == TeamMember(data.username, data.password, data.full_name)
           ins == create_document(teammember, member)
       IN  /\ teammember' = ins.coll
           /\ Finish(p, [code |-> 200, id |-> ins.id])
    /\ UNCHANGED <<db, complaint, clock, req, loc, acked>>

(* POST /admin/complaints *)
create_complaint(p, data) ==
    /\ pc[p] = "idle"
    /\ Len(complaint) < MaxComplaints
    /\ req' = [req EXCEPT ![p] = [op |-> "create_complaint", data |-> data]]
    /\ LET comp == Complaint(data.title, data.description, data.customer_name,
                             data.customer_contact, data.assigned_to)
           ins == create_document(complaint, comp)
       IN  IF ~db
           THEN /\ Finish(p, StoreUnavailable)
                /\ UNCHANGED complaint
           ELSE /\ complaint' = ins.coll
                /\ Finish(p, [code |-> 200, id |-> ins.id])
    /\ UNCHANGED <<db, teammember, clock, loc, acked>>

(* POST /team/complaints/{complaint_id}/status, up to the call of update_one *)
update_status_begin(p, complaint_id, data) ==
    /\ pc[p] = "idle"
    /\ req' = [req EXCEPT ![p] = [op |-> "update_status",
                                  complaint_id |-> complaint_id, data |-> data]]
    /\ IF ~status_ok(data.status)
       THEN Finish(p, HTTPException(400, "Invalid status")) /\ UNCHANGED loc
       ELSE IF ~db
       THEN Finish(p, StoreUnavailable) /\ UNCHANGED loc
       ELSE IF ~ObjectId(complaint_id).valid
       THEN Finish(p, InternalServerError) /\ UNCHANGED loc
       ELSE /\ pc' = [pc EXCEPT ![p] = "us_update"]
            /\ loc' = [loc EXCEPT ![p] =
                         [query |-> [oid |-> ObjectId(complaint_id).oid],
                          now |-> clock,
                          update |-> update_status_update(data.status, clock)]]
            /\ UNCHANGED resp
    /\ UNCHANGED <<db, teammember, complaint, clock, acked>>

(* POST /team/complaints/{complaint_id}/status, update_one and the return *)
update_status_write(p) ==
    /\ pc[p] = "us_update"
    /\ LET res == update_one(complaint, loc[p].query, loc[p].update)
       IN  /\ complaint' = res.coll
           /\ IF res.matched_count = 0
              THEN Finish(p, HTTPException(404, "Complaint not found"))
              ELSE Finish(p, [code |-> 200, ok |-> TRUE])
    /\ UNCHANGED <<db, teammember, clock, req, loc, acked>>

(* POST /team/complaints/{complaint_id}/notes, the note with its timestamp *)
add_note_begin(p, complaint_id, data, username) ==
    /\ pc[p] = "idle"
    /\ LongestNotes + Pending({"an_stamp", "an_update"}) < MaxNotes
    /\ req' = [req EXCEPT ![p] = [op |-> "add_note", complaint_id |-> complaint_id,
                                  data |-> data, username |-> username]]
    /\ LET note == [username |-> username, text |-> data.text, timestamp |-> clock]
       IN  IF ~db
           THEN Finish(p, StoreUnavailable) /\ UNCHANGED loc
           ELSE IF ~ObjectId(complaint_id).valid
           THEN Finish(p, InternalServerError) /\ UNCHANGED loc
           ELSE /\ pc' = [pc EXCEPT ![p] = "an_stamp"]
                /\ loc' = [loc EXCEPT ![p] =
                             [note |-> note,
                              query |-> [oid |-> ObjectId(complaint_id).oid]]]
                /\ UNCHANGED resp
    /\ UNCHANGED <<db, teammember, complaint, clock, acked>>

(* POST /team/complaints/{complaint_id}/notes, the second datetime.now *)
add_note_stamp(p) ==
    /\ pc[p] = "an_stamp"
    /\ pc' = [pc EXCEPT ![p] = "an_update"]
    /\ loc' = [loc EXCEPT ![p] =
                 [note |-> loc[p].note, query |-> loc[p].query,
                  now |-> clock,
                  update |-> add_note_update(loc[p].note, clock)]]
    /\ UNCHANGED <<db, teammember, complaint, clock, req, resp, acked>>

(* POST /team/complaints/{complaint_id}/notes, update_one and the return *)
add_note_write(p) ==
    /\ pc[p] = "an_update"
    /\ LET res == update_one(complaint, loc[p].query, loc[p].update)
       IN  /\ complaint' = res.coll
           /\ IF res.matched_count = 0
              THEN /\ Finish(p, HTTPException(404, "Complaint not found"))
                   /\ UNCHANGED acked
              ELSE /\ Finish(p, [code |-> 200, ok |-> TRUE])
                   /\ acked' = acked (+) SetToBag({[oid |-> loc[p].query.oid,
                                                    note |-> loc[p].note]})
    /\ UNCHANGED <<db, teammember, clock, req, loc>>

(* The response is sent and the worker takes the next request *)
Return(p) ==
    /\ pc[p] = "done"
    /\ pc' = [pc EXCEPT ![p] = "idle"]
    /\ req' = [req EXCEPT ![p] = NoRequest]
    /\ loc' = [loc EXCEPT ![p] = NoLocals]
    /\ resp' = [resp EXCEPT ![p] = NoResponse]
    /\ UNCHANGED <<db, teammember, complaint, clock, acked>>

-----------------------------------------------------------------------------

NextTeam ==
    \/ \E p \in Worker, payload \in LoginRequestInputs : team_login(p, payload)
    \/ \E p \in Worker, data \in TeamCreateInputs : create_team_member_find(p, data)
    \/ \E p \in Worker : create_team_member_insert(p)
    \/ \E p \in Worker : Return(p)

NextComplaint ==
    \/ Tick
    \/ \E p \in Worker, data \in ComplaintCreateInputs : create_complaint(p, data)
    \/ \E p \in Worker, complaint_id \in ComplaintIdInputs, data \in StatusUpdateInputs :
          update_status_begin(p, complaint_id, data)
    \/ \E p \in Worker : update_status_write(p)
    \/ \E p \in Worker, complaint_id \in ComplaintIdInputs, data \in NoteCreateInputs,
          username \in NoteUsernameInputs :
          add_note_begin(p, complaint_id, data, username)
    \/ \E p \in Worker : add_note_stamp(p)
    \/ \E p \in Worker : add_note_write(p)
    \/ \E p \in Worker : Return(p)

Next == NextTeam \/ NextComplaint

Spec == Init /\ [][Next]_vars

SpecTeam == Init /\ [][NextTeam]_vars

SpecComplaint == Init /\ [][NextComplaint]_vars

-----------------------------------------------------------------------------
(* Vocabulary of the properties *)

IsPrefix(s, t) == Len(s) <= Len(t) /\ SubSeq(t, 1, Len(s)) = s

\* Worker p takes the first step of a request of kind op in this step
Begins(p, op) == pc[p] = "idle" /\ req'[p].op = op

\* Worker p's request ends in this step
Ends(p) == pc[p] # "done" /\ pc'[p] = "done"

\* The stored complaints whose identifier has the text complaint_id
Targets(complaint_id) ==
    {i \in DOMAIN complaint : OidString(complaint[i].oid) = complaint_id}

\* The notes of complaint i, as a bag
NotesBag(i) ==
    LET notes == complaint[i].notes
    IN  [n \in {notes[k] : k \in DOMAIN notes} |->
           Cardinality({k \in DOMAIN notes : notes[k] = n})]

\* The acknowledged notes of complaint i, as a bag
AckedBag(i) ==
    LET mine == {e \in DOMAIN acked : e.oid = complaint[i].oid}
    IN  [n \in {e.note : e \in mine} |-> acked[[oid |-> complaint[i].oid, note |-> n]]]

-----------------------------------------------------------------------------
(* C1: in every reachable state the stored status of every complaint is one  *)
(* of pending, progress, complete, critical, hold, cancelled.                *)
C1_StatusInEnumeration ==
    \A i \in DOMAIN complaint : complaint[i].status \in StatusLiteral

\* A status update was accepted and another one, with a value outside the
\* enumeration, was rejected
C1_Witness ==
    /\ \E i \in DOMAIN complaint : complaint[i].status = "progress"
    /\ \E p \in Worker :
          /\ pc[p] = "done"
          /\ req[p].op = "update_status"
          /\ req[p].data.status = "bogus"
          /\ req[p].complaint_id = OidString(1)

(* C2: no two stored team-member records have the same username, whatever    *)
(* the interleaving of the find_one and create_document steps of             *)
(* create_team_member requests.                                              *)
C2_UsernameUnique ==
    \A i, j \in DOMAIN teammember :
        i # j => teammember[i].username # teammember[j].username

(* C3: a create_team_member request whose username is already stored is      *)
(* rejected with 400 "Username already exists" in its find_one step, and     *)
(* that step, the whole request, leaves the teammember collection as it was. *)
C3_DuplicateRejected ==
    [][\A p \in Worker :
          ( /\ Begins(p, "create_team_member")
            /\ \E i \in DOMAIN teammember :
                  teammember[i].username = req'[p].data.username )
          => /\ pc'[p] = "done"
             /\ resp'[p] = [code |-> 400, detail |-> "Username already exists"]
             /\ teammember' = teammember]_vars

\* A request for a stored username with another password was rejected
C3_Witness ==
    \E p \in Worker :
        /\ pc[p] = "done"
        /\ req[p].op = "create_team_member"
        /\ resp[p].code = 400
        /\ \E i \in DOMAIN teammember :
              /\ teammember[i].username = req[p].data.username
              /\ teammember[i].password # req[p].data.password

(* C4: an update_status request whose status is outside the enumeration ends *)
(* in its first step with 400, for every complaint id, and the complaint     *)
(* collection is the same after it as before.                                *)
C4_InvalidStatusRejected ==
    [][\A p \in Worker :
          ( /\ Begins(p, "update_status")
            /\ req'[p].data.status \notin StatusLiteral )
          => /\ pc'[p] = "done"
             /\ resp'[p] = [code |-> 400, detail |-> "Invalid status"]
             /\ complaint' = complaint]_vars

\* An invalid status for a stored complaint was rejected
C4_Witness ==
    \E p \in Worker :
        /\ pc[p] = "done"
        /\ req[p].op = "update_status"
        /\ req[p].data.status \notin StatusLiteral
        /\ resp[p].code = 400
        /\ Targets(req[p].complaint_id) # {}

(* C5: no step removes, changes or reorders a stored note (the notes of a    *)
(* complaint before a step are a prefix of its notes after it), and a        *)
(* successful add_note appends exactly its note (the request's username and  *)
(* text, the timestamp it read) as the last element of the target's notes    *)
(* and leaves the notes of every other complaint alone.                      *)
C5_NotesAppendOnly ==
    [][/\ \A i \in DOMAIN complaint :
             /\ i \in DOMAIN complaint'
             /\ IsPrefix(complaint[i].notes, complaint'[i].notes)
       /\ \A p \in Worker :
             ( /\ req[p].op = "add_note"
               /\ Ends(p)
               /\ resp'[p].code = 200 )
             => /\ Targets(req[p].complaint_id) # {}
                /\ loc[p].note.username = req[p].username
                /\ loc[p].note.text = req[p].data.text
                /\ loc[p].note.timestamp <= clock
                /\ \A i \in DOMAIN complaint :
                      complaint'[i].notes =
                          IF i \in Targets(req[p].complaint_id)
                          THEN Append(complaint[i].notes, loc[p].note)
                          ELSE complaint[i].notes]_vars

\* Two notes written at different times are stored in the order of the writes
C5_Witness ==
    \E i \in DOMAIN complaint :
        /\ Len(complaint[i].notes) >= 2
        /\ complaint[i].notes[1].timestamp < complaint[i].notes[2].timestamp
        /\ \E p \in Worker :
              /\ pc[p] = "done"
              /\ req[p].op = "add_note"
              /\ resp[p].code = 200
              /\ loc[p].note = complaint[i].notes[2]

(* C6, as stated: every successful update_status and add_note sets           *)
(* updated_at, and after a successful add_note updated_at is strictly        *)
(* greater than before.                                                      *)
C6_UpdatedAtStrictlyIncreases ==
    [][\A p \in Worker :
          ( /\ req[p].op \in {"update_status", "add_note"}
            /\ Ends(p)
            /\ resp'[p].code = 200 )
          => \A i \in Targets(req[p].complaint_id) :
                /\ "updated_at" \in DOMAIN complaint'[i]
                /\ ( req[p].op = "add_note" /\ "updated_at" \in DOMAIN complaint[i] )
                   => complaint'[i].updated_at > complaint[i].updated_at]_vars

(* C6, amended: every successful update_status and add_note sets updated_at  *)
(* to the clock value its request read before the write; that value is not   *)
(* later than the clock at the write and, for add_note, not earlier than the *)
(* timestamp of the appended note.                                           *)
C6_UpdatedAtIsRequestTime ==
    [][\A p \in Worker :
          ( /\ req[p].op \in {"update_status", "add_note"}
            /\ Ends(p)
            /\ resp'[p].code = 200 )
          => /\ Targets(req[p].complaint_id) # {}
             /\ \A i \in Targets(req[p].complaint_id) :
                   /\ "updated_at" \in DOMAIN complaint'[i]
                   /\ complaint'[i].updated_at = loc[p].now
                   /\ complaint'[i].updated_at <= clock
                   /\ req[p].op = "add_note"
                      => loc[p].note.timestamp <= complaint'[i].updated_at]_vars

\* A successful add_note left updated_at earlier than the timestamp of a note
\* stored before it: updated_at went back
C6_Witness ==
    \E i \in DOMAIN complaint :
        /\ Len(complaint[i].notes) = 2
        /\ "updated_at" \in DOMAIN complaint[i]
        /\ complaint[i].updated_at < complaint[i].notes[1].timestamp
        /\ \E p \in Worker :
              /\ pc[p] = "done"
              /\ req[p].op = "add_note"
              /\ resp[p].code = 200
              /\ loc[p].now = complaint[i].updated_at

(* C7: the record a successful create_complaint stores has status "pending"  *)
(* and no notes, whatever title, description, customer fields and            *)
(* assigned_to were supplied, and these are stored as supplied.              *)
C7_CreatedPendingNoNotes ==
    [][\A p \in Worker :
          ( /\ Begins(p, "create_complaint")
            /\ resp'[p].code = 200 )
          => /\ Len(complaint') = Len(complaint) + 1
             /\ SubSeq(complaint', 1, Len(complaint)) = complaint
             /\ LET doc == complaint'[Len(complaint')]
                    data == req'[p].data
                IN  /\ doc.status = "pending"
                    /\ doc.notes = <<>>
                    /\ \A k \in DOMAIN data : doc[k] = data[k]
                    /\ resp'[p].id = OidString(doc.oid)]_vars

\* A complaint created with every optional field supplied
C7_Witness ==
    \E p \in Worker :
        /\ pc[p] = "done"
        /\ req[p].op = "create_complaint"
        /\ resp[p].code = 200
        /\ req[p].data.assigned_to = "alice"
        /\ \E i \in DOMAIN complaint :
              /\ resp[p].id = OidString(complaint[i].oid)
              /\ complaint[i].assigned_to = "alice"

(* C8: team_login answers 200 with role "team" only if a stored record has   *)
(* the given username and password and is_active = TRUE; when the stored     *)
(* records with that username and password are all inactive it answers 401   *)
(* "Invalid credentials"; and it never changes the teammember collection.    *)
C8_LoginNeedsActiveRecord ==
    [][\A p \in Worker :
          Begins(p, "team_login")
          => LET payload == req'[p].payload
                 same == {i \in DOMAIN teammember :
                            /\ teammember[i].username = payload.username
                            /\ teammember[i].password = payload.password}
                 active == {i \in same : teammember[i].is_active}
             IN  /\ teammember' = teammember
                 /\ pc'[p] = "done"
                 /\ resp'[p].code = 200
                    => /\ active # {}
                       /\ resp'[p].role = "team"
                       /\ resp'[p].username = payload.username
                 /\ (same # {} /\ active = {})
                    => resp'[p] = [code |-> 401, detail |-> "Invalid credentials"]]_vars

\* A login with the username and password of a deactivated member was rejected
C8_Witness ==
    \E p \in Worker :
        /\ pc[p] = "done"
        /\ req[p].op = "team_login"
        /\ resp[p].code = 401
        /\ \E i \in DOMAIN teammember :
              /\ teammember[i].username = req[p].payload.username
              /\ teammember[i].password = req[p].payload.password
              /\ ~teammember[i].is_active

(* C9: with the store configured, an update_status request with an allowed   *)
(* status, or an add_note request, whose complaint identifier no stored      *)
(* complaint has, ends with 404 and leaves the complaint collection as it    *)
(* was.                                                                      *)
C9_AbsentIdNotFound ==
    [][\A p \in Worker :
          ( /\ db
            /\ Ends(p)
            /\ req'[p].op \in {"update_status", "add_note"}
            /\ req'[p].op = "update_status" => req'[p].data.status \in StatusLiteral
            /\ Targets(req'[p].complaint_id) = {} )
          => /\ resp'[p] = [code |-> 404, detail |-> "Complaint not found"]
             /\ complaint' = complaint]_vars

(* C10: every add_note that returned success has its note in the notes of    *)
(* its complaint exactly as many times as it was acknowledged, and the notes *)
(* hold nothing else: no interleaving of add_note and update_status writes   *)
(* loses, duplicates or alters a note.                                       *)
C10_NoNoteLost ==
    /\ \A e \in DOMAIN acked : \E i \in DOMAIN complaint : complaint[i].oid = e.oid
    /\ \A i \in DOMAIN complaint : NotesBag(i) = AckedBag(i)

\* Two add_note requests on one complaint overlapped (the note stored last was
\* built first), a status update was written too, and both notes are stored
C10_Witness ==
    \E i \in DOMAIN complaint :
        /\ Len(complaint[i].notes) = 2
        /\ complaint[i].notes[2].timestamp < complaint[i].notes[1].timestamp
        /\ complaint[i].status = "progress"
        /\ \A p \in Worker :
              /\ pc[p] = "done"
              /\ req[p].op = "add_note"
              /\ resp[p].code = 200

====
